---- MODULE Spec2Model ----
(***************************************************************************)
(* Study-Genius: the request proxy, the quota guard, the activation store, *)
(* the retry executor and the quiz cache of src/server.js, together with   *)
(* the client service that calls them (src/unnamed/part_000).              *)
(*                                                                         *)
(* Time is counted in calendar days: the server only ever compares         *)
(* new Date(x).setHours(0,0,0,0) values, so a Date is modelled by the day  *)
(* it falls on.  Every await of a handler is a separate step, so requests  *)
(* interleave exactly where the Node event loop lets them.                 *)
(***************************************************************************)
EXTENDS Integers, Sequences, FiniteSets, TLC

\* ------------------------------------------------------------------ bounds
MaxDay == 2     \* calendar days the clock may advance
MaxUsage == 4   \* a generate request is not started on a record that used this much
MaxLimit == 2   \* the largest limit an administrator stores in the model
MaxCount == 2   \* the largest count of a code generation request
MaxEdits == 2   \* requests fingerprinted after the first one of a session

\* --------------------------------------------------------------- constants
DefaultFree == 3
DefaultPro == 20
DefaultGold == 100
DefaultUnlimited == 99999
FallbackLimit == 3
maxRetries == 2

Tiers == {"Free", "Pro", "Gold", "Unlimited"}
Codes == {"K1", "K2"}
NoCode == ""                      \* an absent cookie / an empty body field (falsy)
CodeInputs == Codes \cup {NoCode}
Devices == {"dA", "dB"}
NoDevice == ""                    \* deviceId missing from the body (falsy)
DeviceInputs == Devices \cup {NoDevice}
Clients == {"u1", "u2"}
GeminiKeys == {"g1", "g2"}

\* process.env as getGeminiKeys reads it: GEMINI_KEY_1, _2, _3 and API_KEY, an
\* unset variable being "".
Environments == {<<"", "", "", "">>, <<"g1", "g2", "g1", "g2">>}

\* getGeminiKeys: the variables that are set, without duplicates
GetGeminiKeys(env) == {env[i] : i \in DOMAIN env} \ {""}

\* AppConfigSchema defaults
DefaultLimits ==
  [t \in Tiers |-> CASE t = "Free" -> DefaultFree
                     [] t = "Pro" -> DefaultPro
                     [] t = "Gold" -> DefaultGold
                     [] OTHER -> DefaultUnlimited]

\* ActivationCodeSchema: a document of the collection, and "no document"
NewCode(plan, today) ==
  [exists |-> TRUE, planType |-> plan, isUsed |-> FALSE, usedByDeviceId |-> "null",
   dailyUsage |-> 0, lastUsageDate |-> today]

NoRecord ==
  [exists |-> FALSE, planType |-> "Free", isUsed |-> FALSE, usedByDeviceId |-> "null",
   dailyUsage |-> 0, lastUsageDate |-> 0]

NoConfig == [exists |-> FALSE, planLimits |-> DefaultLimits]

\* QuizCache.findOne({ hash }) finding nothing
NoEntry == [exists |-> FALSE, quiz |-> <<>>]

\* ---------------------------------------------------------- upstream errors
\* What the wrapped operation can throw: a status and a message.
ErrRateStatus == [status |-> 429, message |-> "Resource exhausted"]
ErrRateMessage == [status |-> 0, message |-> "got status: 429 Too Many Requests"]
ErrAuth == [status |-> 403, message |-> "API key not valid"]
ErrNetwork == [status |-> 0, message |-> "fetch failed"]
ErrNoKeys == [status |-> 0, message |-> "No Gemini API Keys configured."]
NoError == [status |-> 0, message |-> ""]
UpstreamErrors == {ErrRateStatus, ErrRateMessage, ErrAuth, ErrNetwork}

\* error.message?.includes('429')
Includes429(message) == message \in {"got status: 429 Too Many Requests"}

VARIABLES
  day,        \* the calendar day of the server's clock
  apiKeys,    \* the deduplicated key pool, fixed when the module loads
  codes,      \* ActivationCode collection: code -> document
  config,     \* AppConfig singleton
  cache,      \* QuizCache collection: hash -> entry
  session,    \* each browser's session_code cookie
  adminTok,   \* each browser's admin_session cookie
  stored,     \* each browser's localStorage activation_code
  act,        \* POST /api/activate requests, one slot per client
  adminResp,  \* the last /api/admin/* exchange of each client: route and status
  req,        \* POST /api/generate requests, one slot per client
  quiz,       \* generateQuizContent calls, one per client
  online,     \* the client module's isServerOnline flag, per client
  saves,      \* POST /api/quiz/save requests under way (saveCache is not awaited)
  hashing     \* computeHash: the requests fingerprinted in a tab and their hashes

vars == <<day, apiKeys, codes, config, cache, session, adminTok, stored, act, adminResp,
          req, quiz, online, saves, hashing>>

clock == <<day, apiKeys>>
db == <<codes, config, cache>>
web == <<session, adminTok, stored, act, adminResp>>
cli == <<quiz, online, saves, hashing>>

\* -------------------------------------------------------------- JavaScript
\* a || b on numbers: 0 is falsy
OrElse(a, b) == IF a = 0 THEN b ELSE a

Max(a, b) == IF a >= b THEN a ELSE b

\* ------------------------------------------------------------------ server
\* Mutant: the body's code takes precedence over the cookie.
ResolveCodeBodyFirst(cookie, body) == IF body # NoCode THEN body ELSE cookie

\* const code = req.cookies.session_code || req.body.activationCode
ResolveCode(cookie, body) == IF cookie # NoCode THEN cookie ELSE body

\* Mutant: the comparison of the two days the wrong way round.
NeedsResetReversed(today, lastUsed) == today < lastUsed

\* today > lastUsed
NeedsReset(today, lastUsed) == today > lastUsed

\* const limit = limits[user.planType] || 3
GuardLimit(limits, plan) == OrElse(limits[plan], FallbackLimit)

\* Mutant: the comparison is lost, nothing is ever over its limit.
OverLimitNever(usage, limit) == usage >= limit /\ FALSE

\* Mutant: off by one the other way, the last use of the day is refused.
OverLimitEarly(usage, limit) == usage + 1 >= limit

\* Mutant: off by one, a record at its limit is still admitted.
OverLimitStrict(usage, limit) == usage > limit

\* if (user.dailyUsage >= limit) return 403
OverLimit(usage, limit) == usage >= limit

\* Mutant: any error that carries an HTTP status counts as a rate limit.
IsRateLimitAnyStatus(error) == Includes429(error.message) \/ error.status >= 400

\* const isRateLimit = error.message?.includes('429') || error.status === 429
IsRateLimit(error) == Includes429(error.message) \/ error.status = 429

\* Mutant: attempt < maxRetries, one retry fewer.
ShouldRetryStrict(error, attempt) ==
  (Includes429(error.message) \/ error.status = 429) /\ attempt < maxRetries

\* if (isRateLimit && attempt <= maxRetries) retry
ShouldRetry(error, attempt) == IsRateLimit(error) /\ attempt <= maxRetries

\* Mutant: with an empty pool apiKeys[NaN] is handed on instead of throwing.
GetRandomKeyUndefined(keys) == IF keys = {} THEN {""} ELSE keys

\* getRandomKey: the keys it can return; none when it throws
GetRandomKey(keys) == IF keys = {} THEN {} ELSE keys

\* Math.max(0, currentLimit - req.user.dailyUsage)
Remaining(currentLimit, usage) == Max(0, currentLimit - usage)

\* limits of the generate handler: appConfig ? appConfig.planLimits : defaults
HandlerLimits(cfg) == IF cfg.exists THEN cfg.planLimits ELSE DefaultLimits

\* user.dailyUsage = 0; user.lastUsageDate = new Date()
ResetUser(user, today) == [user EXCEPT !.dailyUsage = 0, !.lastUsageDate = today]

\* req.user.dailyUsage += 1; req.user.lastUsageDate = new Date()
CountUse(user, today) == [user EXCEPT !.dailyUsage = @ + 1, !.lastUsageDate = today]

IdleReq ==
  [pc |-> "idle", op |-> "", cookie |-> NoCode, body |-> NoCode, code |-> NoCode,
   found |-> NoRecord, user |-> NoRecord, today |-> 0,
   planLimit |-> 0, limit |-> 0, attempt |-> 0, key |-> "", outcomes |-> <<>>,
   text |-> "", status |-> 0, keys |-> {}, error |-> "", remaining |-> -1]

\* The fields of the JSON body of an error answer, and of a successful one
ErrorKeys == {"error"}
SuccessKeys == {"text", "remaining"}

Respond(r, st, msg) ==
  req' = [req EXCEPT ![r].pc = "done", ![r].status = st, ![r].keys = ErrorKeys,
                     ![r].error = msg]

InFlight(r) == req[r].pc \notin {"idle", "done"}

\* A response that its client has not read yet.
Unread(r) == req[r].pc = "done"

\* The client sends POST /api/generate with its cookie and body.
StartGenerate(r, cookie, body) ==
  /\ req[r].pc = "idle"
  /\ req' = [req EXCEPT ![r] = [IdleReq EXCEPT !.pc = "find", !.cookie = cookie,
                                               !.body = body]]
  /\ UNCHANGED <<clock, db, web, cli>>

\* The client operations that generate: generateQuizContent, gradeOpenEndedAnswer,
\* generateStudyGuide, sendChatMessage, generateSpacedRepetitionSchedule.
Ops == {"quiz", "grade", "guide", "chat", "schedule"}

\* generateViaProxy called by operation op: POST /api/generate with the
\* browser's cookie and the activation code of its localStorage.
GenerateViaProxy(c, op) ==
  /\ req[c].pc = "idle"
  /\ req' = [req EXCEPT ![c] = [IdleReq EXCEPT !.pc = "find", !.op = op,
                                               !.cookie = session[c],
                                               !.body = stored[c]]]
  /\ UNCHANGED <<clock, db, web, cli>>

\* checkPlanLimits up to the rollover save: resolve the code, findOne, compare days.
GuardFind(r) ==
  LET code == ResolveCode(req[r].cookie, req[r].body)
      user == IF code \in Codes THEN codes[code] ELSE NoRecord
  IN
  /\ req[r].pc = "find"
  /\ (user.exists /\ ~NeedsReset(day, user.lastUsageDate)) => user.dailyUsage < MaxUsage
  /\ IF code = NoCode THEN Respond(r, 401, "Session expired.")
     ELSE IF ~user.exists THEN
       req' = [req EXCEPT ![r].pc = "done", ![r].status = 403, ![r].keys = ErrorKeys,
                          ![r].error = "Invalid Session", ![r].code = code]
     ELSE IF NeedsReset(day, user.lastUsageDate) THEN
       req' = [req EXCEPT ![r].pc = "reset", ![r].code = code, ![r].found = user,
                          ![r].today = day,
                          ![r].user = ResetUser(user, day)]
     ELSE
       req' = [req EXCEPT ![r].pc = "config", ![r].code = code, ![r].found = user,
                          ![r].today = day, ![r].user = user]
  /\ UNCHANGED <<clock, db, web, cli>>

\* user.save() writes the modified paths of the document: lastUsageDate (a new
\* Date always differs) and dailyUsage when it differs from the loaded value;
\* saving a document that was deleted meanwhile throws.
SaveUsage(code, loaded, user) ==
  [codes EXCEPT ![code].dailyUsage =
                   IF user.dailyUsage # loaded.dailyUsage THEN user.dailyUsage ELSE @,
                ![code].lastUsageDate = user.lastUsageDate]

\* await user.save() of the rollover branch
GuardSave(r) ==
  /\ req[r].pc = "reset"
  /\ IF codes[req[r].code].exists
     THEN /\ codes' = SaveUsage(req[r].code, req[r].found, req[r].user)
          /\ req' = [req EXCEPT ![r].pc = "config"]
     ELSE /\ Respond(r, 500, "Auth Check Failed")
          /\ UNCHANGED codes
  /\ UNCHANGED <<clock, config, cache, web, cli>>

\* Mutant: the guard counts the use itself when it admits the request.
GuardConfigCounting(r) ==
  LET cfg == IF config.exists THEN config ELSE [exists |-> TRUE, planLimits |-> DefaultLimits]
      limit == OrElse(cfg.planLimits[req[r].user.planType], FallbackLimit)
      over == req[r].user.dailyUsage >= limit
  IN
  /\ req[r].pc = "config"
  /\ config' = cfg
  /\ req' = [req EXCEPT ![r].pc = IF over THEN "done" ELSE "call",
                        ![r].status = IF over THEN 403 ELSE 0,
                        ![r].keys = IF over THEN ErrorKeys ELSE {},
                        ![r].error = IF over THEN "Daily Limit Reached." ELSE "",
                        ![r].attempt = IF over THEN 0 ELSE 1,
                        ![r].planLimit = cfg.planLimits[req[r].user.planType],
                        ![r].limit = limit]
  /\ codes' = IF over THEN codes
              ELSE [codes EXCEPT ![req[r].code].dailyUsage = req[r].user.dailyUsage + 1]
  /\ UNCHANGED <<clock, cache, web, cli>>

\* AppConfig.findOne(), AppConfig.create({}) when there is none, the limit check
GuardConfig(r) ==
  LET cfg == IF config.exists THEN config ELSE [exists |-> TRUE, planLimits |-> DefaultLimits]
      limit == GuardLimit(cfg.planLimits, req[r].user.planType)
  IN
  /\ req[r].pc = "config"
  /\ config' = cfg
  /\ IF OverLimit(req[r].user.dailyUsage, limit)
     THEN req' = [req EXCEPT ![r].pc = "done", ![r].status = 403,
                             ![r].keys = ErrorKeys,
                             ![r].error = "Daily Limit Reached.",
                             ![r].planLimit = cfg.planLimits[req[r].user.planType],
                             ![r].limit = limit]
     ELSE req' = [req EXCEPT ![r].pc = "call", ![r].attempt = 1,
                             ![r].planLimit = cfg.planLimits[req[r].user.planType],
                             ![r].limit = limit]
  /\ UNCHANGED <<clock, codes, cache, web, cli>>

\* One invocation of the wrapped operation by executeWithRetry: getRandomKey,
\* which throws on an empty pool, then generateContent with the key drawn, which
\* returns a text or throws.
Attempt(r, text, error) ==
  /\ req[r].pc = "call"
  /\ IF GetRandomKey(apiKeys) = {} THEN
       IF ShouldRetry(ErrNoKeys, req[r].attempt)
       THEN req' = [req EXCEPT ![r].attempt = @ + 1, ![r].outcomes = Append(@, ErrNoKeys)]
       ELSE req' = [req EXCEPT ![r].pc = "done", ![r].status = 500,
                               ![r].keys = ErrorKeys,
                               ![r].error = ErrNoKeys.message,
                               ![r].outcomes = Append(@, ErrNoKeys)]
     ELSE \E key \in GetRandomKey(apiKeys) :
       IF error = NoError THEN
         req' = [req EXCEPT ![r].pc = "incr", ![r].text = text, ![r].key = key,
                            ![r].outcomes = Append(@, NoError)]
       ELSE IF ShouldRetry(error, req[r].attempt) THEN
         req' = [req EXCEPT ![r].attempt = @ + 1, ![r].key = key,
                            ![r].outcomes = Append(@, error)]
       ELSE
         req' = [req EXCEPT ![r].pc = "done", ![r].status = 500, ![r].key = key,
                            ![r].keys = ErrorKeys,
                            ![r].error = error.message,
                            ![r].outcomes = Append(@, error)]
  /\ UNCHANGED <<clock, db, web, cli>>

\* req.user.dailyUsage += 1; req.user.lastUsageDate = new Date(); await req.user.save()
Increment(r) ==
  LET user == CountUse(req[r].user, day)
  IN
  /\ req[r].pc = "incr"
  /\ IF codes[req[r].code].exists
     THEN /\ codes' = SaveUsage(req[r].code, req[r].user, user)
          /\ req' = [req EXCEPT ![r].pc = "respond", ![r].user = user]
     ELSE /\ req' = [req EXCEPT ![r].pc = "done", ![r].status = 500,
                                ![r].keys = ErrorKeys,
                                ![r].error = "No document found", ![r].user = user]
          /\ UNCHANGED codes
  /\ UNCHANGED <<clock, config, cache, web, cli>>

\* AppConfig.findOne(); res.json({ text, remaining })
Reply(r) ==
  LET currentLimit == HandlerLimits(config)[req[r].user.planType]
  IN
  /\ req[r].pc = "respond"
  /\ req' = [req EXCEPT ![r].pc = "done", ![r].status = 200, ![r].keys = SuccessKeys,
                        ![r].remaining = Remaining(currentLimit, req[r].user.dailyUsage)]
  /\ UNCHANGED <<clock, db, web, cli>>

\* The client reads the response.
Receive(r) ==
  /\ req[r].pc = "done"
  /\ req' = [req EXCEPT ![r] = IdleReq]
  /\ UNCHANGED <<clock, db, web, cli>>

\* Midnight passes (a response that is ready is read first).
Tick ==
  /\ day < MaxDay
  /\ \A c \in Clients : ~Unread(c)
  /\ day' = day + 1
  /\ UNCHANGED <<apiKeys, db, web, req, cli>>

\* ------------------------------------------------------------ activation
Truthy(s) == s \notin {"", "null"}

\* Mutant: === for !==, the bound device is the one turned away.
DeviceConflictInverted(user, deviceId) ==
  user.isUsed /\ Truthy(user.usedByDeviceId) /\ user.usedByDeviceId = deviceId

\* user.isUsed && user.usedByDeviceId && user.usedByDeviceId !== deviceId
DeviceConflict(user, deviceId) ==
  user.isUsed /\ Truthy(user.usedByDeviceId) /\ user.usedByDeviceId # deviceId

\* user.usedByDeviceId = deviceId || 'unknown'
BoundDevice(deviceId) == IF Truthy(deviceId) THEN deviceId ELSE "unknown"

\* user.isUsed = true; user.usedByDeviceId = ...; user.lastUsageDate = new Date()
ActivateUser(user, deviceId, today) ==
  [user EXCEPT !.isUsed = TRUE, !.usedByDeviceId = BoundDevice(deviceId),
               !.lastUsageDate = today]

IdleAct == [pc |-> "idle", startup |-> FALSE, code |-> NoCode, deviceId |-> NoDevice,
            user |-> NoRecord, status |-> 0]

ActBusy(c) == act[c].pc = "save"

\* POST /api/activate up to the save: the body, findOne, the device check.
\* startup tells the request of App's checkAuth from the activation screen's.
ActivateRequest(c, code, deviceId, startup) ==
  LET user == IF code \in Codes THEN codes[code] ELSE NoRecord
      st == IF code = NoCode THEN 400
            ELSE IF ~user.exists THEN 401
            ELSE IF DeviceConflict(user, deviceId) THEN 403
            ELSE 0
  IN
  /\ act[c].pc = "idle"
  /\ act' = [act EXCEPT ![c] =
               [pc |-> IF st = 0 THEN "save" ELSE "done", startup |-> startup,
                code |-> code, deviceId |-> deviceId,
                user |-> IF st = 0 THEN ActivateUser(user, deviceId, day) ELSE NoRecord,
                status |-> st]]
  /\ UNCHANGED <<clock, db, session, adminTok, stored, adminResp, req, cli>>

\* The request of the activation screen (checkActivationStatus sends no
\* deviceId; any other caller of the route may send one).
ActivateFind(c, code, deviceId) == ActivateRequest(c, code, deviceId, FALSE)

\* App's checkAuth when the page loads: checkActivationStatus(stored code),
\* whose body is { code } alone.
CheckAuth(c) ==
  /\ stored[c] # NoCode
  /\ ActivateRequest(c, stored[c], NoDevice, TRUE)

\* await user.save(); res.cookie('session_code', code); res.json({ valid: true })
ActivateSave(c) ==
  /\ act[c].pc = "save"
  /\ IF codes[act[c].code].exists
     THEN /\ codes' = [codes EXCEPT ![act[c].code].isUsed = act[c].user.isUsed,
                                    ![act[c].code].usedByDeviceId = act[c].user.usedByDeviceId,
                                    ![act[c].code].lastUsageDate = act[c].user.lastUsageDate]
          /\ session' = [session EXCEPT ![c] = act[c].code]
          /\ act' = [act EXCEPT ![c].pc = "done", ![c].status = 200]
     ELSE /\ act' = [act EXCEPT ![c].pc = "done", ![c].status = 500]
          /\ UNCHANGED <<codes, session>>
  /\ UNCHANGED <<clock, config, cache, adminTok, stored, adminResp, req, cli>>

\* ActivationScreen.handleSubmit: a valid answer stores the code in localStorage.
\* checkAuth: any other answer removes the stored code.
ActivateReceive(c) ==
  /\ act[c].pc = "done"
  /\ stored' = [stored EXCEPT ![c] =
                  IF act[c].startup
                  THEN IF act[c].status = 200 THEN @ ELSE NoCode
                  ELSE IF act[c].status = 200 THEN act[c].code ELSE @]
  /\ act' = [act EXCEPT ![c] = IdleAct]
  /\ UNCHANGED <<clock, db, session, adminTok, adminResp, req, cli>>

\* ------------------------------------------------------------------ admin
AdminPassword == "admin"
Passwords == {"admin", "guess"}

NoResp == [route |-> "", status |-> 0]

\* res.status(st).json(...) of an /api/admin route, as the client sees it
Answer(c, route, st) == [adminResp EXCEPT ![c] = [route |-> route, status |-> st]]

\* POST /api/admin/login
AdminLogin(c, password) ==
  /\ IF password = AdminPassword
     THEN adminTok' = [adminTok EXCEPT ![c] = "authenticated"]
     ELSE UNCHANGED adminTok
  /\ adminResp' = Answer(c, "login", IF password = AdminPassword THEN 200 ELSE 401)
  /\ UNCHANGED <<clock, db, session, stored, act, req, cli>>

\* Mutant: any admin_session cookie, even none, passes.
IsAdminAnyone(token) == token \in {"authenticated", ""}

\* requireAdmin
IsAdmin(token) == token = "authenticated"

\* Mutant: the supplied object replaces the stored one; a tier it does not name
\* falls back to the schema default.
MergeLimitsReplace(old, planLimits) ==
  [t \in DOMAIN old |-> IF t \in DOMAIN planLimits THEN planLimits[t]
                        ELSE IF t = "Free" THEN 3 ELSE IF t = "Pro" THEN 20
                        ELSE IF t = "Gold" THEN 100 ELSE 99999]

\* config.planLimits = { ...config.planLimits, ...planLimits }
MergeLimits(old, planLimits) ==
  [t \in Tiers |-> IF t \in DOMAIN planLimits THEN planLimits[t] ELSE old[t]]

\* POST /api/admin/config with a planLimits object naming some tiers
AdminConfig(c, planLimits) ==
  /\ IF IsAdmin(adminTok[c])
     THEN /\ config' = [exists |-> TRUE,
                        planLimits |-> MergeLimits(config.planLimits, planLimits)]
          /\ adminResp' = Answer(c, "config", 200)
     ELSE /\ UNCHANGED config
          /\ adminResp' = Answer(c, "config", 401)
  /\ UNCHANGED <<clock, codes, cache, session, adminTok, stored, act, req, cli>>

\* GET /api/admin/config: findOne, and create({}) when there is none
AdminGetConfig(c) ==
  /\ IF IsAdmin(adminTok[c])
     THEN /\ config' = [exists |-> TRUE, planLimits |-> config.planLimits]
          /\ adminResp' = Answer(c, "getConfig", 200)
     ELSE /\ UNCHANGED config
          /\ adminResp' = Answer(c, "getConfig", 401)
  /\ UNCHANGED <<clock, codes, cache, session, adminTok, stored, act, req, cli>>

\* GET /api/admin/quizzes and GET /api/admin/codes
ListRoutes == {"quizzes", "codes"}

AdminList(c, route) ==
  /\ adminResp' = Answer(c, route, IF IsAdmin(adminTok[c]) THEN 200 ELSE 401)
  /\ UNCHANGED <<clock, db, session, adminTok, stored, act, req, cli>>

\* DELETE /api/admin/quiz/:id
AdminDeleteQuiz(c, h) ==
  /\ IF IsAdmin(adminTok[c])
     THEN /\ cache' = [cache EXCEPT ![h] = NoEntry]
          /\ adminResp' = Answer(c, "deleteQuiz", 200)
     ELSE /\ UNCHANGED cache
          /\ adminResp' = Answer(c, "deleteQuiz", 401)
  /\ UNCHANGED <<clock, codes, config, session, adminTok, stored, act, req, cli>>

\* DELETE /api/admin/code/:id
AdminDeleteCode(c, k) ==
  /\ IF IsAdmin(adminTok[c])
     THEN /\ codes' = [codes EXCEPT ![k] = NoRecord]
          /\ adminResp' = Answer(c, "deleteCode", 200)
     ELSE /\ UNCHANGED codes
          /\ adminResp' = Answer(c, "deleteCode", 401)
  /\ UNCHANGED <<clock, config, cache, session, adminTok, stored, act, req, cli>>

\* const limit = count || 1
CodeCount(count) == OrElse(count, 1)

\* const plan = planType || 'Free'
CodePlan(planType) == IF planType = "" THEN "Free" ELSE planType

\* The index of the first code of draws that the unique index on code refuses:
\* one that is in the collection already or was drawn earlier in the batch
\* (Len(draws) + 1 when there is none).
FirstDuplicate(coll, draws) ==
  LET dup(i) == coll[draws[i]].exists \/ \E j \in 1..(i - 1) : draws[j] = draws[i]
      D == {i \in 1..Len(draws) : dup(i)}
  IN IF D = {} THEN Len(draws) + 1 ELSE CHOOSE i \in D : \A j \in D : i <= j

\* ActivationCode.insertMany(newCodes): every document is validated first (the
\* enum of planType), then they are inserted in order up to the first
\* duplicate key, which throws.
InsertMany(coll, draws, plan, today) ==
  LET stop == FirstDuplicate(coll, draws)
      kept == {draws[i] : i \in 1..(stop - 1)}
  IN IF plan \notin Tiers THEN coll
     ELSE [k \in Codes |-> IF k \in kept THEN NewCode(plan, today) ELSE coll[k]]

InsertFails(coll, draws, plan) ==
  plan \notin Tiers \/ FirstDuplicate(coll, draws) <= Len(draws)

\* POST /api/admin/codes/generate; draws are the codes Math.random() yields
AdminGenerateCodes(c, count, planType, draws) ==
  /\ Len(draws) = CodeCount(count)
  /\ IF IsAdmin(adminTok[c])
     THEN /\ codes' = InsertMany(codes, draws, CodePlan(planType), day)
          /\ adminResp' = Answer(c, "generateCodes",
                                 IF InsertFails(codes, draws, CodePlan(planType))
                                 THEN 500 ELSE 200)
     ELSE /\ UNCHANGED codes
          /\ adminResp' = Answer(c, "generateCodes", 401)
  /\ UNCHANGED <<clock, config, cache, session, adminTok, stored, act, req, cli>>

\* ------------------------------------------------------- cache (server)
\* POST /api/quiz/check: QuizCache.findOne({ hash })
CacheLookup(h) == cache[h]

\* Mutant: $setOnInsert for the update, an existing entry is left as it is.
CacheUpsertFirstWins(h, q) ==
  IF cache[h].exists THEN cache ELSE [cache EXCEPT ![h] = [exists |-> TRUE, quiz |-> q]]

\* Mutant: the document is written without its quiz field.
CacheUpsertNoQuiz(h, q) == [cache EXCEPT ![h] = [exists |-> TRUE, quiz |-> <<>>]]

\* POST /api/quiz/save: findOneAndUpdate({ hash }, ..., { upsert: true })
CacheUpsert(h, q) == [cache EXCEPT ![h] = [exists |-> TRUE, quiz |-> q]]

\* ------------------------------------------------- generateQuizContent
Hashes == {"H1", "H2"}
NoHash == ""        \* computeHash caught an exception

\* What the model can answer, as the text of the proxy's response.
TextQuiz1 == "{quiz:[q1]}"
TextQuiz2 == "fenced json {quiz:[q2]}"
TextNoQuestions == "{quiz:[]}"
TextNoQuiz == "{title:t}"
TextGarbage == "Sorry, I cannot"
TextEmpty == ""
Texts == {TextQuiz1, TextQuiz2, TextNoQuestions, TextNoQuiz, TextGarbage, TextEmpty}

\* Mutant: an answer without a quiz array is taken for a quiz without questions.
ParseQuizLenient(text) ==
  CASE text = TextEmpty -> [ok |-> FALSE, error |-> "Empty response from AI.", quiz |-> <<>>]
    [] text = TextGarbage -> [ok |-> FALSE, error |-> "parse failed", quiz |-> <<>>]
    [] text = TextNoQuiz -> [ok |-> TRUE, error |-> "", quiz |-> <<>>]
    [] text = TextNoQuestions -> [ok |-> TRUE, error |-> "", quiz |-> <<>>]
    [] text = TextQuiz1 -> [ok |-> TRUE, error |-> "", quiz |-> <<"q1">>]
    [] OTHER -> [ok |-> TRUE, error |-> "", quiz |-> <<"q2">>]

\* Lines 404-419 of generateQuizContent: the empty check, the fence and brace
\* clean-up, JSON.parse, the quiz array check.
ParseQuiz(text) ==
  CASE text = TextEmpty -> [ok |-> FALSE, error |-> "Empty response from AI.", quiz |-> <<>>]
    [] text = TextGarbage -> [ok |-> FALSE, error |-> "parse failed", quiz |-> <<>>]
    [] text = TextNoQuiz -> [ok |-> FALSE, error |-> "Invalid format received from AI.", quiz |-> <<>>]
    [] text = TextNoQuestions -> [ok |-> TRUE, error |-> "", quiz |-> <<>>]
    [] text = TextQuiz1 -> [ok |-> TRUE, error |-> "", quiz |-> <<"q1">>]
    [] OTHER -> [ok |-> TRUE, error |-> "", quiz |-> <<"q2">>]

\* checkCache: if (!hash || !isServerOnline) return null
SkipCheck(h, isServerOnline) == h = NoHash \/ ~isServerOnline

\* Mutant: the answer's found flag is read under another name, so never set.
CacheHitNever(entry) == entry.exists /\ FALSE

\* checkCache: if (data.found && data.quiz) return data.quiz
CacheHit(entry) == entry.exists

\* saveCache: if (!hash || !quiz || quiz.length === 0 || !isServerOnline) return
SkipSave(h, q, isServerOnline) == h = NoHash \/ Len(q) = 0 \/ ~isServerOnline

IdleQuiz == [pc |-> "idle", hash |-> NoHash, checked |-> "none", entry |-> NoEntry,
             proxied |-> FALSE, result |-> <<>>, source |-> "none", error |-> ""]

QuizBusy(c) == quiz[c].pc \notin {"idle", "done"}

\* generateQuizContent is called: computeHash, then the first lines of checkCache.
QuizStart(c, h) ==
  /\ ~QuizBusy(c)
  /\ quiz' = [quiz EXCEPT ![c] =
                IF SkipCheck(h, online[c])
                THEN [IdleQuiz EXCEPT !.pc = "proxy", !.hash = h, !.checked = "skipped"]
                ELSE [IdleQuiz EXCEPT !.pc = "check", !.hash = h]]
  /\ UNCHANGED <<clock, db, web, req, online, saves, hashing>>

\* Mutant: the catch of checkCache rethrows, so a failed check ends the call.
QuizCheckRethrow(c, outcome) ==
  LET entry == CacheLookup(quiz[c].hash)
  IN
  /\ quiz[c].pc = "check"
  /\ IF outcome = "ok" /\ CacheHit(entry)
     THEN quiz' = [quiz EXCEPT ![c].pc = "done", ![c].checked = "hit", ![c].entry = entry,
                               ![c].result = entry.quiz, ![c].source = "cache"]
     ELSE IF outcome = "failed"
     THEN quiz' = [quiz EXCEPT ![c].pc = "done", ![c].checked = outcome,
                               ![c].error = "Failed to fetch"]
     ELSE quiz' = [quiz EXCEPT ![c].pc = "proxy",
                               ![c].checked = IF outcome = "ok" THEN "miss" ELSE outcome,
                               ![c].entry = IF outcome = "ok" THEN entry ELSE NoEntry]
  /\ online' = [online EXCEPT ![c] = IF outcome = "failed" THEN FALSE ELSE @]
  /\ UNCHANGED <<clock, db, web, req, saves, hashing>>

\* The fetch of /api/quiz/check ends: answered by the route ("ok"), answered 500
\* by its catch, or it throws (network failure, or the 1 s abort).
QuizCheck(c, outcome) ==
  LET entry == CacheLookup(quiz[c].hash)
  IN
  /\ quiz[c].pc = "check"
  /\ IF outcome = "ok" /\ CacheHit(entry)
     THEN quiz' = [quiz EXCEPT ![c].pc = "done", ![c].checked = "hit", ![c].entry = entry,
                               ![c].result = entry.quiz, ![c].source = "cache"]
     ELSE quiz' = [quiz EXCEPT ![c].pc = "proxy",
                               ![c].checked = IF outcome = "ok" THEN "miss" ELSE outcome,
                               ![c].entry = IF outcome = "ok" THEN entry ELSE NoEntry]
  /\ online' = [online EXCEPT ![c] = IF outcome = "failed" THEN FALSE ELSE @]
  /\ UNCHANGED <<clock, db, web, req, saves, hashing>>

\* generateViaProxy: POST /api/generate with the cookie and the stored code
QuizProxy(c) ==
  /\ quiz[c].pc = "proxy"
  /\ req[c].pc = "idle"
  /\ quiz' = [quiz EXCEPT ![c].pc = "wait", ![c].proxied = TRUE]
  /\ req' = [req EXCEPT ![c] = [IdleReq EXCEPT !.pc = "find", !.op = "quiz",
                                               !.cookie = session[c],
                                               !.body = stored[c]]]
  /\ UNCHANGED <<clock, db, web, online, saves, hashing>>

\* The proxy answered: parse the text, start saveCache without awaiting it, return.
QuizReceive(c) ==
  LET parsed == ParseQuiz(req[c].text)
      good == req[c].status = 200 /\ parsed.ok
  IN
  /\ quiz[c].pc = "wait"
  /\ req[c].pc = "done"
  /\ quiz' = [quiz EXCEPT ![c].pc = "done",
                          ![c].source = IF good THEN "proxy" ELSE "none",
                          ![c].result = IF good THEN parsed.quiz ELSE <<>>,
                          ![c].error = IF req[c].status # 200 THEN req[c].error
                                       ELSE parsed.error]
  /\ saves' = IF good /\ ~SkipSave(quiz[c].hash, parsed.quiz, online[c])
              THEN saves \cup {[client |-> c, hash |-> quiz[c].hash, quiz |-> parsed.quiz]}
              ELSE saves
  /\ req' = [req EXCEPT ![c] = IdleReq]
  /\ UNCHANGED <<clock, db, web, online, hashing>>

\* The fetch of /api/quiz/save ends: "ok" (stored, answered), "late" (stored, but
\* the client had aborted after 2 s), "error500" (the route's catch answered, not
\* stored; fetch does not throw) or "failed" (never stored, the fetch throws).
SaveArrive(m, outcome) ==
  /\ m \in saves
  /\ saves' = saves \ {m}
  /\ cache' = IF outcome \in {"ok", "late"} THEN CacheUpsert(m.hash, m.quiz) ELSE cache
  /\ online' = [online EXCEPT ![m.client] =
                  IF outcome \in {"ok", "error500"} THEN @ ELSE FALSE]
  /\ UNCHANGED <<clock, codes, config, web, req, quiz, hashing>>

\* ------------------------------------------------------------ the inputs
SeqErrors == {ErrRateStatus, ErrRateMessage, ErrAuth}

\* planLimits objects naming any subset of the tiers in S, with values in V
PartialLimits(S, V) == UNION {[D -> V] : D \in SUBSET S}

AdminTiers == {"Free", "Pro"}
LimitInputs == PartialLimits(AdminTiers, 0..MaxLimit)

\* No handler is between two of its awaits, and every response has been read.
Quiet == \A c \in Clients : req[c].pc = "idle" /\ act[c].pc = "idle"

\* ------------------------------------------------------------ computeHash
\* QuizSettings (types.ts); an optional field that is not set is "undefined".
Undefined == "undefined"
QuestionTypes == {"multiple_choice", "true_false"}
Difficulties == {"Easy", "Hard"}
Quantities == {"10", "40"}   \* numbers, written as JSON prints them
Languages == {"Arabic", "English"}
Flags == {Undefined, "true"}
Distributions == {Undefined, "5/3/2"}
DifficultyDistributions == {Undefined, "3/4/3"}

SettingsInputs ==
  [questionType : QuestionTypes, difficulty : Difficulties, quantity : Quantities,
   maxMode : Flags, language : Languages, thinkingMode : Flags,
   distribution : Distributions, difficultyDistribution : DifficultyDistributions]

\* FileData (types.ts): data is the base64 text, here a sequence of characters.
File1 == [id |-> "f1", name |-> "notes.pdf", mimeType |-> "application/pdf", data |-> <<"Q", "k">>]
File1b == [id |-> "f9", name |-> "notes.pdf", mimeType |-> "application/pdf", data |-> <<"Z", "m">>]
File2 == [id |-> "f2", name |-> "notes.pdf", mimeType |-> "application/pdf", data |-> <<"Q", "k", "x">>]
File3 == [id |-> "f3", name |-> "scan.png", mimeType |-> "image/png", data |-> <<"Q", "k">>]

\* content: string | FileData[]
TextContent(text) == [isText |-> TRUE, text |-> text, files |-> <<>>]
FileContent(files) == [isText |-> FALSE, text |-> "", files |-> files]
ContentInputs ==
  {TextContent("cells"), TextContent("atoms"),
   FileContent(<<File1>>), FileContent(<<File1b>>), FileContent(<<File2>>),
   FileContent(<<File1, File3>>), FileContent(<<File3, File1>>)}

\* Mutant: the size of a file is left out of what is hashed.
FileMetaNoSize(f) == [name |-> f.name, size |-> 0, type |-> f.mimeType]

\* content.map(f => ({ name: f.name, size: f.data.length, type: f.mimeType }))
FileMeta(f) == [name |-> f.name, size |-> Len(f.data), type |-> f.mimeType]

\* dataToHash
DataToHash(content, settings) ==
  [content |-> IF content.isText
               THEN content
               ELSE FileContent([i \in 1..Len(content.files) |-> FileMeta(content.files[i])]),
   settings |-> <<<<"type", settings.questionType>>,
                  <<"difficulty", settings.difficulty>>,
                  <<"quantity", settings.quantity>>,
                  <<"maxMode", settings.maxMode>>,
                  <<"language", settings.language>>,
                  <<"thinking", settings.thinkingMode>>>>]

\* JSON.stringify: a property whose value is undefined is left out.
Defined(property) == property[2] # Undefined
Stringify(data) == [data EXCEPT !.settings = SelectSeq(data.settings, Defined)]

\* crypto.subtle.digest('SHA-256', ...) printed in hex: taken to be free of
\* collisions, so the digest stands for the message it was computed from.
NoMessage == [content |-> TextContent(""), settings |-> <<>>]
Sha256Hex(message) == [empty |-> FALSE, of |-> message]
EmptyHash == [empty |-> TRUE, of |-> NoMessage]

\* computeHash: the catch returns "" when crypto.subtle is not there to call.
ComputeHash(content, settings, subtle) ==
  IF subtle THEN Sha256Hex(Stringify(DataToHash(content, settings))) ELSE EmptyHash

NoRequest == [content |-> TextContent(""), settings |-> CHOOSE st \in SettingsInputs : TRUE]
NoHashing == [subtle |-> TRUE, first |-> NoRequest, firstHash |-> EmptyHash,
              cur |-> NoRequest, hash |-> EmptyHash, edits |-> 0]

\* generateQuizContent hashes the request that the input form holds after the
\* user changed one of its settings.
HashAfterSetting(field, value) ==
  /\ hashing.edits < MaxEdits
  /\ hashing.cur.settings[field] # value
  /\ LET settings == [hashing.cur.settings EXCEPT ![field] = value]
     IN hashing' = [hashing EXCEPT
                      !.cur.settings = settings,
                      !.hash = ComputeHash(hashing.cur.content, settings, hashing.subtle),
                      !.edits = @ + 1]
  /\ UNCHANGED <<clock, db, web, req, quiz, online, saves>>

\* ... after the user changed the text or the files.
HashAfterContent(content) ==
  /\ hashing.edits < MaxEdits
  /\ hashing.cur.content # content
  /\ hashing' = [hashing EXCEPT
                   !.cur.content = content,
                   !.hash = ComputeHash(content, hashing.cur.settings, hashing.subtle),
                   !.edits = @ + 1]
  /\ UNCHANGED <<clock, db, web, req, quiz, online, saves>>

\* ... a second time for the request as it stands.
HashAgain ==
  /\ hashing.edits < MaxEdits
  /\ hashing' = [hashing EXCEPT
                   !.hash = ComputeHash(hashing.cur.content, hashing.cur.settings,
                                        hashing.subtle),
                   !.edits = @ + 1]
  /\ UNCHANGED <<clock, db, web, req, quiz, online, saves>>

\* ---------------------------------------------------------------- SeqSpec
\* The server handling one request at a time: generate requests with any cookie
\* and body, an administrator changing the limits between them, days passing.
\* The administrator is logged in on u2 and has issued code K1; K2 is not a code.
SeqInit ==
  /\ day = 0
  /\ apiKeys \in {GetGeminiKeys(env) : env \in Environments}
  /\ \E plan \in {"Free", "Pro"} :
       codes = [k \in Codes |-> IF k = "K1" THEN NewCode(plan, 0) ELSE NoRecord]
  /\ config = NoConfig
  /\ cache = [h \in Hashes |-> NoEntry]
  /\ session = [c \in Clients |-> NoCode]
  /\ adminTok = [c \in Clients |-> IF c = "u2" THEN "authenticated" ELSE NoCode]
  /\ stored = [c \in Clients |-> NoCode]
  /\ act = [c \in Clients |-> IdleAct]
  /\ adminResp = [c \in Clients |-> NoResp]
  /\ req = [c \in Clients |-> IdleReq]
  /\ quiz = [c \in Clients |-> IdleQuiz]
  /\ online = [c \in Clients |-> TRUE]
  /\ saves = {}
  /\ hashing = NoHashing

SeqNext ==
  \/ \E cookie \in CodeInputs, body \in CodeInputs :
       Quiet /\ StartGenerate("u1", cookie, body)
  \/ Receive("u1")
  \/ GuardFind("u1")
  \/ GuardSave("u1")
  \/ GuardConfig("u1")
  \/ \E error \in SeqErrors \cup {NoError} : Attempt("u1", TextQuiz1, error)
  \/ Increment("u1")
  \/ Reply("u1")
  \/ Tick
  \/ \E planLimits \in LimitInputs : Quiet /\ AdminConfig("u2", planLimits)

SeqSpec == SeqInit /\ [][SeqNext]_vars

\* ---------------------------------------------------------------- ActSpec
\* Activation requests, one at a time, from two browsers with any code and any
\* device fingerprint (or none), while days pass.  K1 has been issued.
ActInit ==
  /\ day = 0
  /\ apiKeys = GeminiKeys
  /\ codes = [k \in Codes |-> IF k = "K1" THEN NewCode("Free", 0) ELSE NoRecord]
  /\ config = NoConfig
  /\ cache = [h \in Hashes |-> NoEntry]
  /\ session = [c \in Clients |-> NoCode]
  /\ adminTok = [c \in Clients |-> NoCode]
  /\ stored = [c \in Clients |-> NoCode]
  /\ act = [c \in Clients |-> IdleAct]
  /\ adminResp = [c \in Clients |-> NoResp]
  /\ req = [c \in Clients |-> IdleReq]
  /\ quiz = [c \in Clients |-> IdleQuiz]
  /\ online = [c \in Clients |-> TRUE]
  /\ saves = {}
  /\ hashing = NoHashing

ActNext ==
  \/ \E c \in Clients, code \in CodeInputs, deviceId \in DeviceInputs :
       Quiet /\ ActivateFind(c, code, deviceId)
  \/ \E c \in Clients : ActivateSave(c)
  \/ \E c \in Clients : ActivateReceive(c)
  \/ Tick

ActSpec == ActInit /\ [][ActNext]_vars

\* -------------------------------------------------------------- CacheSpec
\* An activated browser tab (device dA, code K1) generating quizzes through the
\* cache and the proxy within one day, one generateQuizContent call at a time;
\* the cache saves, which no call awaits, overlap the calls that follow.
CacheTexts == Texts
CacheErrors == {NoError, ErrAuth, ErrRateStatus}
CheckOutcomes == {"ok", "error500", "failed"}
SaveOutcomes == {"ok", "late", "error500", "failed"}

CacheInit ==
  /\ day = 0
  /\ apiKeys = GeminiKeys
  /\ codes = [k \in Codes |->
               IF k = "K1"
               THEN [NewCode("Free", 0) EXCEPT !.isUsed = TRUE, !.usedByDeviceId = "dA"]
               ELSE NoRecord]
  /\ config = NoConfig
  /\ cache = [h \in Hashes |-> NoEntry]
  /\ session = [c \in Clients |-> "K1"]
  /\ adminTok = [c \in Clients |-> NoCode]
  /\ stored = [c \in Clients |-> "K1"]
  /\ act = [c \in Clients |-> IdleAct]
  /\ adminResp = [c \in Clients |-> NoResp]
  /\ req = [c \in Clients |-> IdleReq]
  /\ quiz = [c \in Clients |-> IdleQuiz]
  /\ online = [c \in Clients |-> TRUE]
  /\ saves = {}
  /\ hashing = NoHashing

CacheNext ==
  \/ \E h \in Hashes \cup {NoHash} : QuizStart("u1", h)
  \/ \E outcome \in CheckOutcomes : QuizCheck("u1", outcome)
  \/ QuizProxy("u1")
  \/ GuardFind("u1")
  \/ GuardConfig("u1")
  \/ \E text \in CacheTexts, error \in CacheErrors : Attempt("u1", text, error)
  \/ Increment("u1")
  \/ Reply("u1")
  \/ QuizReceive("u1")
  \/ \E m \in saves, outcome \in SaveOutcomes : SaveArrive(m, outcome)

CacheSpec == CacheInit /\ [][CacheNext]_vars

\* ------------------------------------------------------------ PopRaceSpec
\* Two activated browsers each call generateQuizContent once for the same
\* content and settings (fingerprint H1) while the cache is empty; the calls,
\* the proxy requests and the cache saves interleave.
PopRaceNext ==
  \/ \E c \in Clients : quiz[c].pc = "idle" /\ QuizStart(c, "H1")
  \/ \E c \in Clients, outcome \in CheckOutcomes : QuizCheck(c, outcome)
  \/ \E c \in Clients : QuizProxy(c)
  \/ \E c \in Clients : GuardFind(c)
  \/ \E c \in Clients : GuardConfig(c)
  \/ \E c \in Clients, text \in {TextQuiz1, TextQuiz2} : Attempt(c, text, NoError)
  \/ \E c \in Clients : Increment(c)
  \/ \E c \in Clients : Reply(c)
  \/ \E c \in Clients : QuizReceive(c)
  \/ \E m \in saves, outcome \in SaveOutcomes : SaveArrive(m, outcome)

PopRaceSpec == CacheInit /\ [][PopRaceNext]_vars

\* --------------------------------------------------------------- LifeSpec
\* The life of one code: K1 is issued with a limit of one generation a day;
\* two browsers activate it from the activation screen (with any device
\* fingerprint or none), reload the page, and generate quizzes, one request
\* after the other, while days pass; the administrator on u2 may delete it.
LifeInit ==
  /\ day = 0
  /\ apiKeys = GeminiKeys
  /\ codes = [k \in Codes |-> IF k = "K1" THEN NewCode("Free", 0) ELSE NoRecord]
  /\ config = [NoConfig EXCEPT !.exists = TRUE, !.planLimits["Free"] = 1]
  /\ cache = [h \in Hashes |-> NoEntry]
  /\ session = [c \in Clients |-> NoCode]
  /\ adminTok = [c \in Clients |-> IF c = "u2" THEN "authenticated" ELSE NoCode]
  /\ stored = [c \in Clients |-> NoCode]
  /\ act = [c \in Clients |-> IdleAct]
  /\ adminResp = [c \in Clients |-> NoResp]
  /\ req = [c \in Clients |-> IdleReq]
  /\ quiz = [c \in Clients |-> IdleQuiz]
  /\ online = [c \in Clients |-> TRUE]
  /\ saves = {}
  /\ hashing = NoHashing

LifeNext ==
  \/ \E c \in Clients, deviceId \in DeviceInputs :
       Quiet /\ ActivateFind(c, "K1", deviceId)
  \/ \E c \in Clients : Quiet /\ CheckAuth(c)
  \/ \E c \in Clients : ActivateSave(c)
  \/ \E c \in Clients : ActivateReceive(c)
  \/ \E c \in Clients : Quiet /\ GenerateViaProxy(c, "quiz")
  \/ \E c \in Clients : GuardFind(c)
  \/ \E c \in Clients : GuardSave(c)
  \/ \E c \in Clients : GuardConfig(c)
  \/ \E c \in Clients : Attempt(c, TextQuiz1, NoError)
  \/ \E c \in Clients : Increment(c)
  \/ \E c \in Clients : Reply(c)
  \/ \E c \in Clients : Receive(c)
  \/ Tick
  \/ Quiet /\ AdminDeleteCode("u2", "K1")

LifeSpec == LifeInit /\ [][LifeNext]_vars

\* ---------------------------------------------------------------- DaySpec
\* The morning after a day that ended with dailyUsage = limit: K1 is bound to
\* dA or to 'unknown', u1 holds its cookie, and nothing has been generated
\* today.  The browsers reload and activate in any order, and u1 sends one
\* generate request, the first of the day (its answer is left unread).
DayLimits == {1, DefaultFree}

DayInit ==
  /\ day = 1
  /\ apiKeys = GeminiKeys
  /\ \E limit \in DayLimits, device \in {"dA", "unknown"} :
       /\ config = IF limit = DefaultFree THEN NoConfig
                   ELSE [NoConfig EXCEPT !.exists = TRUE, !.planLimits["Free"] = limit]
       /\ codes = [k \in Codes |->
                    IF k = "K1"
                    THEN [NewCode("Free", 0) EXCEPT !.isUsed = TRUE,
                                                    !.usedByDeviceId = device,
                                                    !.dailyUsage = limit]
                    ELSE NoRecord]
  /\ cache = [h \in Hashes |-> NoEntry]
  /\ session = [c \in Clients |-> IF c = "u1" THEN "K1" ELSE NoCode]
  /\ adminTok = [c \in Clients |-> NoCode]
  /\ stored = [c \in Clients |-> IF c = "u1" THEN "K1" ELSE NoCode]
  /\ act = [c \in Clients |-> IdleAct]
  /\ adminResp = [c \in Clients |-> NoResp]
  /\ req = [c \in Clients |-> IdleReq]
  /\ quiz = [c \in Clients |-> IdleQuiz]
  /\ online = [c \in Clients |-> TRUE]
  /\ saves = {}
  /\ hashing = NoHashing

DayNext ==
  \/ \E c \in Clients, deviceId \in DeviceInputs :
       Quiet /\ ActivateFind(c, "K1", deviceId)
  \/ \E c \in Clients : Quiet /\ CheckAuth(c)
  \/ \E c \in Clients : ActivateSave(c)
  \/ \E c \in Clients : ActivateReceive(c)
  \/ Quiet /\ GenerateViaProxy("u1", "quiz")
  \/ GuardFind("u1")
  \/ GuardSave("u1")
  \/ GuardConfig("u1")
  \/ Attempt("u1", TextQuiz1, NoError)
  \/ Increment("u1")
  \/ Reply("u1")

DaySpec == DayInit /\ [][DayNext]_vars

\* --------------------------------------------------------------- HashSpec
\* One tab fingerprints a request and then the requests that the user makes
\* of it by changing the content or one setting at a time; crypto.subtle is
\* there or not for the whole session.
SettingsFields ==
  {"questionType", "difficulty", "quantity", "maxMode", "language", "thinkingMode",
   "distribution", "difficultyDistribution"}

SettingsValues(field) ==
  CASE field = "questionType" -> QuestionTypes
    [] field = "difficulty" -> Difficulties
    [] field = "quantity" -> Quantities
    [] field = "language" -> Languages
    [] field = "distribution" -> Distributions
    [] field = "difficultyDistribution" -> DifficultyDistributions
    [] OTHER -> Flags

HashInit ==
  /\ day = 0
  /\ apiKeys = GeminiKeys
  /\ codes = [k \in Codes |-> NoRecord]
  /\ config = NoConfig
  /\ cache = [h \in Hashes |-> NoEntry]
  /\ session = [c \in Clients |-> NoCode]
  /\ adminTok = [c \in Clients |-> NoCode]
  /\ stored = [c \in Clients |-> NoCode]
  /\ act = [c \in Clients |-> IdleAct]
  /\ adminResp = [c \in Clients |-> NoResp]
  /\ req = [c \in Clients |-> IdleReq]
  /\ quiz = [c \in Clients |-> IdleQuiz]
  /\ online = [c \in Clients |-> TRUE]
  /\ saves = {}
  /\ \E subtle \in BOOLEAN, content \in ContentInputs, settings \in SettingsInputs :
       hashing = [subtle |-> subtle,
                  first |-> [content |-> content, settings |-> settings],
                  firstHash |-> ComputeHash(content, settings, subtle),
                  cur |-> [content |-> content, settings |-> settings],
                  hash |-> ComputeHash(content, settings, subtle),
                  edits |-> 0]

HashNext ==
  \/ \E field \in SettingsFields : \E value \in SettingsValues(field) :
       HashAfterSetting(field, value)
  \/ \E content \in ContentInputs : HashAfterContent(content)
  \/ HashAgain

HashSpec == HashInit /\ [][HashNext]_vars

\* -------------------------------------------------------------- ChokeSpec
\* Every generating operation of the client, from a browser that is activated
\* (u1: cookie and stored code K1) and from one that is not (u2: no cookie; it
\* stores nothing, or a code that does not exist), one request at a time, while
\* days pass and the administrator may delete the code at any moment.
ChokeInit ==
  /\ day = 0
  /\ apiKeys = GeminiKeys
  /\ \E used \in {0, DefaultFree} :
       codes = [k \in Codes |->
                 IF k = "K1"
                 THEN [NewCode("Free", 0) EXCEPT !.isUsed = TRUE, !.usedByDeviceId = "dA",
                                                 !.dailyUsage = used]
                 ELSE NoRecord]
  /\ config = NoConfig
  /\ cache = [h \in Hashes |-> NoEntry]
  /\ session = [c \in Clients |-> IF c = "u1" THEN "K1" ELSE NoCode]
  /\ adminTok = [c \in Clients |-> IF c = "u2" THEN "authenticated" ELSE NoCode]
  /\ stored \in {[c \in Clients |-> IF c = "u1" THEN "K1" ELSE other] :
                  other \in {NoCode, "K2"}}
  /\ act = [c \in Clients |-> IdleAct]
  /\ adminResp = [c \in Clients |-> NoResp]
  /\ req = [c \in Clients |-> IdleReq]
  /\ quiz = [c \in Clients |-> IdleQuiz]
  /\ online = [c \in Clients |-> TRUE]
  /\ saves = {}
  /\ hashing = NoHashing

ChokeNext ==
  \/ \E c \in Clients, op \in Ops : Quiet /\ GenerateViaProxy(c, op)
  \/ \E c \in Clients : GuardFind(c)
  \/ \E c \in Clients : GuardSave(c)
  \/ \E c \in Clients : GuardConfig(c)
  \/ \E c \in Clients, error \in SeqErrors \cup {NoError} : Attempt(c, TextQuiz1, error)
  \/ \E c \in Clients : Increment(c)
  \/ \E c \in Clients : Reply(c)
  \/ \E c \in Clients : Receive(c)
  \/ Tick
  \/ AdminDeleteCode("u2", "K1")

ChokeSpec == ChokeInit /\ [][ChokeNext]_vars

\* --------------------------------------------------------------- RaceSpec
\* Two browsers holding the same code each send one POST /api/generate on the
\* same day; the two handlers interleave at their awaits.  The record has not
\* been used today, or is one use short of the default limit; its dailyUsage
\* is within the limit that is stored for its tier.
RaceInit ==
  /\ day = 0
  /\ apiKeys = GeminiKeys
  /\ \E used \in {0, DefaultFree - 1} :
       codes = [k \in Codes |->
                 IF k = "K1"
                 THEN [NewCode("Free", 0) EXCEPT !.isUsed = TRUE, !.usedByDeviceId = "dA",
                                                 !.dailyUsage = used]
                 ELSE NoRecord]
  /\ config \in {NoConfig, [exists |-> TRUE, planLimits |-> DefaultLimits],
                 [exists |-> TRUE, planLimits |-> [DefaultLimits EXCEPT !["Free"] = 0]]}
  /\ codes["K1"].dailyUsage <= config.planLimits["Free"]
  /\ cache = [h \in Hashes |-> NoEntry]
  /\ session = [c \in Clients |-> "K1"]
  /\ adminTok = [c \in Clients |-> NoCode]
  /\ stored = [c \in Clients |-> "K1"]
  /\ act = [c \in Clients |-> IdleAct]
  /\ adminResp = [c \in Clients |-> NoResp]
  /\ req = [c \in Clients |-> IdleReq]
  /\ quiz = [c \in Clients |-> IdleQuiz]
  /\ online = [c \in Clients |-> TRUE]
  /\ saves = {}
  /\ hashing = NoHashing

RaceNext ==
  \/ \E c \in Clients : StartGenerate(c, session[c], stored[c])
  \/ \E c \in Clients : GuardFind(c)
  \/ \E c \in Clients : GuardConfig(c)
  \/ \E c \in Clients, error \in SeqErrors \cup {NoError} : Attempt(c, TextQuiz1, error)
  \/ \E c \in Clients : Increment(c)
  \/ \E c \in Clients : Reply(c)

RaceSpec == RaceInit /\ [][RaceNext]_vars

\* -------------------------------------------------------------- AdminSpec
\* The /api/admin routes called, one request at a time, by two browsers of
\* which neither is logged in at first: u2 is the administrator's, u1 belongs
\* to somebody who does not know the password.  One code has been issued or
\* none, and one quiz is cached.
PlanInputs == {"Pro", "", "Platinum"}
CountInputs == 0..MaxCount
Draws(n) == [1..n -> Codes]

AdminInit ==
  /\ day = 0
  /\ apiKeys = GeminiKeys
  /\ \E issued \in SUBSET {"K1"} :
       codes = [k \in Codes |-> IF k \in issued THEN NewCode("Gold", 0) ELSE NoRecord]
  /\ config = NoConfig
  /\ cache = [h \in Hashes |-> IF h = "H1" THEN [exists |-> TRUE, quiz |-> <<"q1">>]
                               ELSE NoEntry]
  /\ session = [c \in Clients |-> NoCode]
  /\ adminTok = [c \in Clients |-> NoCode]
  /\ stored = [c \in Clients |-> NoCode]
  /\ act = [c \in Clients |-> IdleAct]
  /\ adminResp = [c \in Clients |-> NoResp]
  /\ req = [c \in Clients |-> IdleReq]
  /\ quiz = [c \in Clients |-> IdleQuiz]
  /\ online = [c \in Clients |-> TRUE]
  /\ saves = {}
  /\ hashing = NoHashing

AdminNext ==
  \/ \E password \in Passwords : AdminLogin("u2", password)
  \/ \E password \in Passwords \ {AdminPassword} : AdminLogin("u1", password)
  \/ \E c \in Clients, planLimits \in LimitInputs : AdminConfig(c, planLimits)
  \/ \E c \in Clients : AdminGetConfig(c)
  \/ \E c \in Clients, route \in ListRoutes : AdminList(c, route)
  \/ \E c \in Clients, h \in Hashes : AdminDeleteQuiz(c, h)
  \/ \E c \in Clients, k \in Codes : AdminDeleteCode(c, k)
  \/ \E c \in Clients, count \in CountInputs, planType \in PlanInputs :
       \E draws \in Draws(CodeCount(count)) : AdminGenerateCodes(c, count, planType, draws)

AdminSpec == AdminInit /\ [][AdminNext]_vars

\* ----------------------------------------------------------------- claims
RateLimitErrors == {ErrRateStatus, ErrRateMessage}
Last(seq) == seq[Len(seq)]

\* The guard of request r got as far as the limit check.
Checked(r) == req[r].limit # 0
\* The limit the stored QuotaConfig holds for the tier of r's record.
StoredLimit(r) == config.planLimits[req[r].found.planType]
\* The record of request r was last used on an earlier day than the request's.
RolledOver(r) == req[r].found.lastUsageDate < req[r].today
\* The dailyUsage with which the guard of r checks the limit.
UsageAtGuard(r) == IF RolledOver(r) THEN 0 ELSE req[r].found.dailyUsage
UpstreamFailed(r) == req[r].outcomes # <<>> /\ Last(req[r].outcomes) # NoError

\* C1 (quota monotonicity): a sequential request on a record with dailyUsage =
\* limit - 1, on the day of its lastUsageDate, is admitted, and when the upstream
\* call succeeds dailyUsage becomes limit; a request on a record with dailyUsage
\* >= limit, on the same day, is answered 403 without any upstream call.
C1_QuotaMonotonic ==
  \A r \in Clients :
    (req[r].pc = "done" /\ Checked(r) /\ ~RolledOver(r)) =>
      /\ req[r].found.dailyUsage = StoredLimit(r) - 1 =>
           /\ req[r].status # 403
           /\ req[r].outcomes # <<>>
           /\ req[r].status = 200 => codes[req[r].code].dailyUsage = StoredLimit(r)
      /\ (StoredLimit(r) >= 1 /\ req[r].found.dailyUsage >= StoredLimit(r)) =>
           /\ req[r].status = 403
           /\ req[r].error = "Daily Limit Reached."
           /\ req[r].outcomes = <<>>
           /\ codes[req[r].code].dailyUsage = req[r].found.dailyUsage

C1_Witness ==
  \E r \in Clients :
    /\ req[r].pc = "done" /\ req[r].status = 200 /\ ~RolledOver(r)
    /\ req[r].found.dailyUsage = StoredLimit(r) - 1
    /\ codes[req[r].code].dailyUsage = StoredLimit(r)

\* C2 (admission invariant): whenever the guard admits a request, the record's
\* dailyUsage is strictly less than the limit the stored QuotaConfig holds for
\* the record's tier, for every limit an administrator can store, 0 included.
C2_AdmissionInvariant ==
  \A r \in Clients :
    (req[r].pc = "call" /\ req[r].outcomes = <<>>) => UsageAtGuard(r) < StoredLimit(r)

\* C3 (day rollover reset), as claimed: a request for a record last used on an
\* earlier day, with dailyUsage equal to its limit, has dailyUsage 0 and
\* lastUsageDate today stored before the limit check, is admitted, and after a
\* successful generation dailyUsage is 1 and remaining is limit - 1.
C3_Body(r) ==
  /\ req[r].pc = "config" =>
       /\ codes[req[r].code].dailyUsage = 0
       /\ codes[req[r].code].lastUsageDate = req[r].today
  /\ (req[r].pc = "done" /\ Checked(r)) =>
       /\ req[r].status # 403
       /\ req[r].outcomes # <<>>
       /\ req[r].status = 200 =>
            /\ codes[req[r].code].dailyUsage = 1
            /\ req[r].remaining = StoredLimit(r) - 1

C3_AtLimit(r) ==
  /\ req[r].pc \in {"config", "call", "incr", "respond", "done"}
  /\ req[r].found.exists
  /\ RolledOver(r)
  /\ config.exists => req[r].found.dailyUsage = StoredLimit(r)

C3_RolloverAnyLimit == \A r \in Clients : C3_AtLimit(r) => C3_Body(r)

\* C3, amended: the same for a limit of at least 1.
C3_Rollover ==
  \A r \in Clients : (C3_AtLimit(r) /\ (config.exists => StoredLimit(r) >= 1)) => C3_Body(r)

C3_Witness ==
  \E r \in Clients :
    /\ C3_AtLimit(r) /\ req[r].pc = "done" /\ req[r].status = 200
    /\ StoredLimit(r) >= 1
    /\ req[r].remaining = StoredLimit(r) - 1

\* C4 (no quota consumed on failure): when the upstream operation of an admitted
\* request fails, after the retries or with a non-rate-limit error, the answer
\* is 500 and the stored dailyUsage is what it was when the guard admitted it.
C4_FailureKeepsUsage ==
  \A r \in Clients :
    (req[r].pc = "done" /\ UpstreamFailed(r)) =>
      /\ req[r].status = 500
      /\ codes[req[r].code].dailyUsage = UsageAtGuard(r)

C4_Witness ==
  \E r \in Clients :
    /\ req[r].pc = "done" /\ UpstreamFailed(r)
    /\ Len(req[r].outcomes) = 3
    /\ codes[req[r].code].dailyUsage > 0

\* C5 (increment and remaining): a successful sequential request leaves the
\* stored dailyUsage one above the value the guard admitted, and its remaining
\* is max(0, L - dailyUsage) for the limit L the guard used, never negative.
C5_RemainingMatchesGuard ==
  \A r \in Clients :
    (req[r].pc = "done" /\ req[r].status = 200) =>
      /\ codes[req[r].code].dailyUsage = UsageAtGuard(r) + 1
      /\ req[r].remaining = Max(0, req[r].limit - codes[req[r].code].dailyUsage)
      /\ req[r].remaining >= 0

\* C6 (retry bound), as claimed: an operation that raises a rate-limit signal on
\* every attempt is invoked exactly maxRetries times, then the failure propagates.
C6_AlwaysRateLimited(r) ==
  /\ req[r].pc = "done"
  /\ req[r].outcomes # <<>>
  /\ \A i \in 1..Len(req[r].outcomes) : req[r].outcomes[i] \in RateLimitErrors

C6_RetryBoundAsClaimed ==
  \A r \in Clients :
    C6_AlwaysRateLimited(r) =>
      /\ Len(req[r].outcomes) = maxRetries
      /\ req[r].status = 500
      /\ req[r].error = Last(req[r].outcomes).message

\* C6, amended: it is invoked exactly maxRetries + 1 times (one call and
\* maxRetries retries), never more, and the last failure propagates unchanged.
C6_RetryBound ==
  \A r \in Clients :
    /\ Len(req[r].outcomes) <= maxRetries + 1
    /\ C6_AlwaysRateLimited(r) =>
         /\ Len(req[r].outcomes) = maxRetries + 1
         /\ req[r].status = 500
         /\ req[r].error = Last(req[r].outcomes).message

C6_Witness ==
  \E r \in Clients : C6_AlwaysRateLimited(r) /\ Len(req[r].outcomes) = maxRetries + 1

\* C7 (fail fast): an attempt that fails without a rate-limit signal is the last
\* attempt, whatever its number, and its error is the one that is answered.
C7_FailFast ==
  \A r \in Clients :
    \A i \in 1..Len(req[r].outcomes) :
      (req[r].outcomes[i] \notin RateLimitErrors \cup {NoError}) =>
        /\ i = Len(req[r].outcomes)
        /\ req[r].pc = "done"
        /\ req[r].status = 500
        /\ req[r].error = req[r].outcomes[i].message

C7_Witness ==
  \E r \in Clients : req[r].pc = "done" /\ req[r].outcomes = <<ErrRateMessage, ErrAuth>>

\* C9 (identity resolution): the guard uses the cookie whenever there is one and
\* the body's code only without a cookie; with neither it answers 401, with a
\* code that has no record 403, and a request so rejected makes no upstream
\* call and changes no record, config or cache entry.
C9_Resolved(r) ==
  /\ req[r].cookie # NoCode => req[r].code = req[r].cookie
  /\ (req[r].cookie = NoCode /\ req[r].body # NoCode) => req[r].code = req[r].body
  /\ (req[r].cookie = NoCode /\ req[r].body = NoCode) =>
       /\ req[r].pc = "done" /\ req[r].status = 401 /\ req[r].outcomes = <<>>
  /\ (req[r].code # NoCode /\ ~codes[req[r].code].exists) =>
       /\ req[r].pc = "done" /\ req[r].status = 403 /\ req[r].outcomes = <<>>
       /\ req[r].error = "Invalid Session"
  /\ (req[r].code # NoCode /\ codes[req[r].code].exists) =>
       ~(req[r].status = 401 \/ req[r].error = "Invalid Session")

C9_Rejects(r) ==
  /\ req[r].pc = "find"
  /\ req'[r].pc = "done"

C9_IdentityResolution ==
  /\ [](\A r \in Clients : req[r].pc \notin {"idle", "find"} => C9_Resolved(r))
  /\ [][\A r \in Clients : C9_Rejects(r) => (db' = db /\ req'[r].status \in {401, 403})]_vars

C9_Witness ==
  \E r \in Clients :
    /\ req[r].pc = "done" /\ req[r].status = 403 /\ req[r].error = "Invalid Session"
    /\ req[r].cookie = NoCode /\ req[r].body = "K2"

\* C8 (device binding): a code activated from fingerprint A stays bound to A; an
\* activation of it from another fingerprint B is answered 403 and changes
\* neither the record nor the session cookie, and an activation from A is
\* accepted again, answered 200, and leaves the binding at A.
C8_Arrives(c) ==
  /\ act[c].pc = "idle"
  /\ act'[c].pc # "idle"
  /\ act'[c].code \in Codes
  /\ act'[c].deviceId \in Devices
  /\ codes[act'[c].code].exists

C8_Saves(c) ==
  /\ act[c].pc = "save"
  /\ act'[c].pc = "done"
  /\ act[c].deviceId \in Devices

C8_Step(c) ==
  LET rec == codes[act'[c].code]
      bound == rec.isUsed /\ rec.usedByDeviceId \in Devices
  IN
  /\ (C8_Arrives(c) /\ bound /\ act'[c].deviceId # rec.usedByDeviceId) =>
       /\ act'[c].pc = "done" /\ act'[c].status = 403
       /\ codes' = codes /\ session' = session
  /\ (C8_Arrives(c) /\ (~rec.isUsed \/ (bound /\ act'[c].deviceId = rec.usedByDeviceId))) =>
       act'[c].pc = "save"
  /\ C8_Saves(c) =>
       /\ act'[c].status = 200
       /\ codes'[act[c].code].isUsed
       /\ codes'[act[c].code].usedByDeviceId = act[c].deviceId
       /\ session'[c] = act[c].code

C8_DeviceBinding == [][\A c \in Clients : C8_Step(c)]_vars

C8_Witness ==
  \E c \in Clients :
    /\ act[c].pc = "done" /\ act[c].status = 403
    /\ act[c].deviceId = "dB"
    /\ codes[act[c].code].isUsed /\ codes[act[c].code].usedByDeviceId = "dA"

\* C10 (cache short-circuit), as claimed: whenever the cache holds an entry for
\* the fingerprint, generateQuizContent returns the cached quiz and sends no
\* POST /api/generate.
C10_Held(c) == quiz'[c].hash # NoHash /\ cache[quiz'[c].hash].exists

C10_ShortCircuitAlways ==
  [][\A c \in Clients :
       /\ (quiz[c].pc = "check" /\ quiz'[c].pc # "check" /\ C10_Held(c)) =>
            (quiz'[c].pc = "done" /\ quiz'[c].source = "cache")
       /\ (~QuizBusy(c) /\ QuizBusy(c)' /\ C10_Held(c)) => quiz'[c].pc = "check"]_vars

\* C10, amended: when the cache check is sent and answered by the route and the
\* cache holds an entry for the fingerprint, the call returns the cached quiz,
\* sends no POST /api/generate and changes no dailyUsage.
C10_ShortCircuit ==
  [][\A c \in Clients :
       (/\ quiz[c].pc = "check"
        /\ quiz'[c].checked \in {"hit", "miss"}
        /\ C10_Held(c)) =>
         /\ quiz'[c].pc = "done"
         /\ quiz'[c].result = cache[quiz[c].hash].quiz
         /\ quiz'[c].source = "cache"
         /\ ~quiz'[c].proxied
         /\ req' = req
         /\ codes' = codes]_vars

C10_Witness ==
  \E c \in Clients :
    /\ quiz[c].pc = "done" /\ quiz[c].checked = "hit" /\ quiz[c].result = <<"q2">>
    /\ ~quiz[c].proxied
    /\ codes["K1"].dailyUsage = 1

\* The step in which generateQuizContent of c returns a non-empty quiz that the
\* proxy generated for a fingerprint it could compute.
Generated(c) ==
  /\ quiz[c].pc = "wait"
  /\ quiz'[c].pc = "done"
  /\ quiz'[c].source = "proxy"
  /\ Len(quiz'[c].result) > 0
  /\ quiz[c].hash # NoHash

\* The message saveCache sends for the quiz that c's call returns.
SaveOf(c) == [client |-> c, hash |-> quiz[c].hash, quiz |-> quiz'[c].result]

C12_FailSoft ==
  [][/\ \A c \in Clients :
          (quiz[c].pc = "check" /\ quiz'[c].checked \in {"error500", "failed", "miss"}) =>
            /\ quiz'[c].pc = "proxy"
            /\ quiz'[c].error = ""
     /\ \A c \in Clients :
          (quiz[c].pc = "wait" /\ quiz'[c].pc # "wait") =>
            LET parsed == ParseQuiz(req[c].text)
            IN
            /\ quiz'[c].pc = "done"
            /\ (req[c].status = 200 /\ parsed.ok) =>
                 /\ quiz'[c].source = "proxy"
                 /\ quiz'[c].result = parsed.quiz
                 /\ quiz'[c].error = ""
            /\ req[c].status # 200 =>
                 /\ quiz'[c].source = "none"
                 /\ quiz'[c].error = req[c].error
            /\ (req[c].status = 200 /\ ~parsed.ok) =>
                 /\ quiz'[c].source = "none"
                 /\ quiz'[c].error = parsed.error
     /\ (saves' # saves /\ saves' \subseteq saves) => (quiz' = quiz /\ req' = req)]_vars

\* A call whose cache check failed, and whose save could therefore not be sent,
\* returned the generated quiz.
C12_Witness ==
  \E c \in Clients :
    /\ quiz[c].pc = "done" /\ quiz[c].checked = "failed" /\ quiz[c].source = "proxy"
    /\ quiz[c].result = <<"q1">> /\ quiz[c].error = ""
    /\ ~online[c] /\ ~cache[quiz[c].hash].exists

\* C13 (admin gate): a request to a gated /api/admin route that does not carry
\* admin_session = 'authenticated' is answered 401 and changes no activation
\* code, no config and no cache entry; whatever changes the database was asked
\* by an authenticated browser and answered by a gated route; the cookie is
\* issued only by a login with the configured password, and a login with
\* another password is answered 401 and issues nothing.
C13_AdminGate ==
  [][/\ \A c \in Clients :
          (/\ adminResp'[c] # adminResp[c]
           /\ adminResp'[c].route # "login"
           /\ adminTok[c] # "authenticated") =>
            /\ adminResp'[c].status = 401
            /\ db' = db
            /\ adminTok' = adminTok
     /\ db' # db =>
          \E c \in Clients :
            /\ adminTok[c] = "authenticated"
            /\ adminResp'[c].route \notin {"", "login"}
            /\ adminResp'[c].status # 401
     /\ \A c \in Clients :
          adminTok'[c] # adminTok[c] =>
            /\ adminTok'[c] = "authenticated"
            /\ adminResp'[c] = [route |-> "login", status |-> 200]
            /\ AdminLogin(c, AdminPassword)
     /\ \A c \in Clients, password \in Passwords \ {AdminPassword} :
          AdminLogin(c, password) =>
            /\ adminResp'[c] = [route |-> "login", status |-> 401]
            /\ adminTok' = adminTok
            /\ db' = db]_vars

\* An unauthenticated browser was refused a deletion while the other browser,
\* logged in, had changed the limits; the code and the quiz are still there.
C13_Witness ==
  /\ adminTok["u1"] = NoCode /\ adminResp["u1"] = [route |-> "deleteCode", status |-> 401]
  /\ adminTok["u2"] = "authenticated" /\ adminResp["u2"] = [route |-> "config", status |-> 200]
  /\ codes["K1"].exists /\ cache["H1"].exists
  /\ config.planLimits["Free"] = 1

\* The guard of request r turned it away for its quota.
QuotaRejected(r) ==
  req[r].pc = "done" /\ req[r].status = 403 /\ req[r].error = "Daily Limit Reached."

\* C14 (live config changes): a generate request that starts after an admin
\* config update has completed is checked against the limit stored then: it is
\* rejected for its quota exactly when the record's dailyUsage has reached the
\* stored limit of its tier, whatever value the administrator stored.
C14_LiveConfig ==
  \A r \in Clients :
    (req[r].pc \in {"call", "incr", "respond", "done"} /\ Checked(r)) =>
      (QuotaRejected(r) <=> UsageAtGuard(r) >= StoredLimit(r))

\* C15 (updateConfig is a partial merge): after an authorised POST
\* /api/admin/config each tier that planLimits names holds the supplied value
\* and each tier it does not name holds the value it had before; a call whose
\* planLimits names no tier (or that has none) leaves all four limits unchanged.
C15_PartialMerge ==
  [][\A c \in Clients, planLimits \in LimitInputs :
       (/\ adminTok[c] = "authenticated"
        /\ adminResp'[c].route = "config"
        /\ AdminConfig(c, planLimits)) =>
         /\ adminResp'[c] = [route |-> "config", status |-> 200]
         /\ DOMAIN config'.planLimits = Tiers
         /\ \A t \in DOMAIN planLimits : config'.planLimits[t] = planLimits[t]
         /\ \A t \in Tiers \ DOMAIN planLimits :
              config'.planLimits[t] = config.planLimits[t]
         /\ DOMAIN planLimits = {} => config'.planLimits = config.planLimits]_vars

\* Two partial updates, Free then Pro, have left Gold and Unlimited as they were.
C15_Witness ==
  /\ config.exists
  /\ config.planLimits = [t \in Tiers |-> CASE t = "Free" -> 2 [] t = "Pro" -> 0
                                            [] t = "Gold" -> DefaultGold
                                            [] OTHER -> DefaultUnlimited]
  /\ adminResp["u2"] = [route |-> "config", status |-> 200]

\* C16 (quota rejection carries limit and plan): the body of an answer that
\* rejects a request for its exhausted daily quota has the limit and the plan
\* tier of the record among its fields.
C16_RejectionCarriesLimit ==
  \A r \in Clients : QuotaRejected(r) => {"limit", "planType"} \subseteq req[r].keys

\* C17 (limit resolution): the limit the guard applies is the stored value of
\* the record's tier, and when that value is not usable (it is 0, which the
\* guard treats as absent) the limit applied is the one currently stored for
\* the Free tier.
C17_LimitResolution ==
  \A r \in Clients :
    (req[r].pc \in {"call", "incr", "respond", "done"} /\ Checked(r)) =>
      /\ StoredLimit(r) # 0 => req[r].limit = StoredLimit(r)
      /\ StoredLimit(r) = 0 => req[r].limit \in {0, config.planLimits["Free"]}

\* C18 (no upstream keys): with an empty key pool an admitted request has its
\* operation attempted once, is answered 500 with the 'no keys configured'
\* message, and leaves dailyUsage as the guard found it; with a non-empty pool
\* every key drawn is a member of the deduplicated pool.
C18_NoKeys ==
  \A r \in Clients :
    /\ (apiKeys = {} /\ req[r].pc \in {"incr", "respond", "done"} /\ Checked(r)
        /\ ~QuotaRejected(r)) =>
         /\ req[r].pc = "done"
         /\ req[r].status = 500
         /\ req[r].error = "No Gemini API Keys configured."
         /\ req[r].outcomes = <<ErrNoKeys>>
         /\ req[r].attempt = 1
         /\ codes[req[r].code].dailyUsage = UsageAtGuard(r)
    /\ (apiKeys = {} /\ req[r].pc = "call") => req[r].outcomes = <<>>
    /\ (apiKeys # {} /\ req[r].outcomes # <<>>) => req[r].key \in apiKeys
    /\ apiKeys \subseteq GeminiKeys

\* A request refused for the missing keys after its record was used once before.
C18_Witness ==
  \E r \in Clients :
    /\ apiKeys = {} /\ req[r].pc = "done" /\ req[r].status = 500
    /\ req[r].outcomes = <<ErrNoKeys>>
    /\ RolledOver(r) /\ codes[req[r].code].dailyUsage = 0

\* The records that a step has added to the collection.
NewRecords == {k \in Codes : ~codes[k].exists /\ codes'[k].exists}

\* C19 (generateCodes): an authorised POST /api/admin/codes/generate with a
\* count and a plan tier adds exactly count records with pairwise distinct
\* codes, each with that tier, isUsed = false, no bound device and dailyUsage =
\* 0, and leaves every existing record unchanged.
C19_GenerateCodes ==
  [][\A c \in Clients, count \in CountInputs, planType \in PlanInputs \cap Tiers :
       (/\ adminTok[c] = "authenticated"
        /\ adminResp'[c].route = "generateCodes"
        /\ \E draws \in Draws(CodeCount(count)) :
             AdminGenerateCodes(c, count, planType, draws)) =>
         /\ Cardinality(NewRecords) = count
         /\ \A k \in NewRecords :
              /\ codes'[k].planType = planType
              /\ ~codes'[k].isUsed
              /\ codes'[k].usedByDeviceId = "null"
              /\ codes'[k].dailyUsage = 0
         /\ \A k \in Codes \ NewRecords : codes'[k] = codes[k]]_vars

\* The number of requests that were answered with a generated text.
Successes == Cardinality({r \in Clients : req[r].pc = "done" /\ req[r].status = 200})

\* The dailyUsage of the code before the first of the requests read it.
UsageBefore ==
  CHOOSE n \in 0..MaxUsage :
    /\ \E r \in Clients : req[r].found.dailyUsage = n
    /\ \A r \in Clients : req[r].found.dailyUsage >= n

\* C20 (usage accounting under interleaving): once all the generate requests
\* sent for one code within a day have finished, however they interleaved, the
\* stored dailyUsage is its value before them plus the number of requests that
\* were answered with success.
C20_InterleavedAccounting ==
  (\A r \in Clients : req[r].pc = "done" /\ req[r].found.exists) =>
    codes["K1"].dailyUsage = UsageBefore + Successes

\* Two different requests for the same record that both read it one use short
\* of its stored limit and have both been through the limit check.
BothReadLastUse(r1, r2) ==
  /\ r1 # r2
  /\ req[r1].pc \in {"call", "incr", "respond", "done"} /\ Checked(r1)
  /\ req[r2].pc \in {"call", "incr", "respond", "done"} /\ Checked(r2)
  /\ req[r1].code = req[r2].code
  /\ StoredLimit(r1) >= 1
  /\ req[r1].found.dailyUsage = StoredLimit(r1) - 1
  /\ req[r2].found.dailyUsage = StoredLimit(r2) - 1

\* C21 (the quota race is reachable): when two concurrent generate requests for
\* one code have both read dailyUsage = limit - 1 before either incremented,
\* neither is rejected for the quota; when both upstream calls succeed both are
\* answered 200, which makes limit + 1 generations for the code on that day,
\* while the stored dailyUsage is limit.
C21_QuotaRace ==
  \A r1, r2 \in Clients :
    BothReadLastUse(r1, r2) =>
      /\ ~QuotaRejected(r1) /\ ~QuotaRejected(r2)
      /\ (/\ req[r1].pc = "done" /\ ~UpstreamFailed(r1)
          /\ req[r2].pc = "done" /\ ~UpstreamFailed(r2)) =>
           /\ req[r1].status = 200 /\ req[r2].status = 200
           /\ (StoredLimit(r1) - 1) + Successes = StoredLimit(r1) + 1
           /\ codes[req[r1].code].dailyUsage = StoredLimit(r1)

\* Both requests of the race were answered with a generated text.
C21_Witness ==
  /\ BothReadLastUse("u1", "u2")
  /\ req["u1"].pc = "done" /\ req["u1"].status = 200
  /\ req["u2"].pc = "done" /\ req["u2"].status = 200
  /\ codes["K1"].dailyUsage = DefaultFree

\* C29 (stored usage stays within the limit): with an unchanged QuotaConfig,
\* whatever the interleaving of the generate requests for one code, the stored
\* dailyUsage never exceeds the limit stored for the record's plan tier.
C29_UsageWithinLimit ==
  \A k \in Codes :
    codes[k].exists => codes[k].dailyUsage <= HandlerLimits(config)[codes[k].planType]

GuardRejected(r) ==
  /\ req[r].pc = "done"
  /\ \/ req[r].status \in {401, 403}
     \/ req[r].status = 500 /\ req[r].error = "Auth Check Failed"

\* C23 (single chokepoint): the upstream model is called only inside a POST
\* /api/generate request, sent by generateViaProxy for one of the client's
\* operations, that the quota guard admitted before the call; a request the
\* guard rejected with 401, 403 or 500 never reaches the upstream.
C23_Chokepoint ==
  /\ [](\A r \in Clients :
          /\ req[r].outcomes # <<>> =>
               /\ req[r].op \in Ops
               /\ req[r].code \in Codes /\ req[r].found.exists
               /\ Checked(r)
               /\ UsageAtGuard(r) < req[r].limit
               /\ ~GuardRejected(r)
          /\ GuardRejected(r) => (req[r].outcomes = <<>> /\ req[r].text = ""))
  /\ [][\A r \in Clients :
          req'[r].outcomes # req[r].outcomes =>
            \/ req'[r].outcomes = <<>>
            \/ req[r].pc = "call" /\ Checked(r) /\ req[r].status = 0]_vars

\* A chat message refused because the day's quota is used up.
C23_Witness ==
  \E r \in Clients :
    /\ GuardRejected(r) /\ req[r].op = "chat" /\ req[r].error = "Daily Limit Reached."
    /\ req[r].found.dailyUsage = DefaultFree /\ day = 0 /\ req[r].found.lastUsageDate = 0

\* The texts that are empty, that JSON.parse refuses, or that have no quiz array.
Malformed == {TextEmpty, TextGarbage, TextNoQuiz}

\* C24 (malformed upstream output): when the proxy answers 200 with a text
\* that is empty, is not parseable JSON or has no quiz array, the call of
\* generateQuizContent ends with an error, returns no questions, sends no cache
\* save and leaves the cache as it is.
C24_MalformedOutput ==
  [][\A c \in Clients :
       (/\ quiz[c].pc = "wait" /\ quiz'[c].pc # "wait"
        /\ req[c].status = 200
        /\ req[c].text \in Malformed) =>
         /\ quiz'[c].pc = "done"
         /\ quiz'[c].error # ""
         /\ quiz'[c].result = <<>>
         /\ quiz'[c].source = "none"
         /\ saves' = saves
         /\ cache' = cache]_vars

\* A call that failed on an answer without a quiz array; its fingerprint is
\* not in the cache although the generation was counted.
C24_Witness ==
  \E c \in Clients :
    /\ quiz[c].pc = "done" /\ quiz[c].error = "Invalid format received from AI."
    /\ quiz[c].hash = "H1" /\ quiz[c].checked = "miss" /\ quiz[c].result = <<>>
    /\ ~cache["H1"].exists /\ saves = {} /\ online[c]
    /\ codes["K1"].dailyUsage = 1

\* Two requests agree on the content: the same text, or as many files with
\* the same name, size and type at every place.
SameContent(a, b) ==
  /\ a.content.isText = b.content.isText
  /\ a.content.text = b.content.text
  /\ Len(a.content.files) = Len(b.content.files)
  /\ \A i \in 1..Len(a.content.files) :
       /\ i <= Len(b.content.files)
       /\ a.content.files[i].name = b.content.files[i].name
       /\ Len(a.content.files[i].data) = Len(b.content.files[i].data)
       /\ a.content.files[i].mimeType = b.content.files[i].mimeType

HashedFields ==
  {"questionType", "difficulty", "quantity", "maxMode", "language", "thinkingMode"}

SameSix(a, b) == \A field \in HashedFields : a.settings[field] = b.settings[field]

\* C25 as stated: two requests of a session, fingerprinted one after the other,
\* get the same fingerprint exactly when they agree on the content and on the
\* six hashed settings fields (so a request hashed twice gets it twice).
C25_FingerprintExact ==
  hashing.firstHash = hashing.hash <=>
    (SameContent(hashing.first, hashing.cur) /\ SameSix(hashing.first, hashing.cur))

\* C25 (fingerprinting), amended: when the digest can be computed, two requests
\* get the same fingerprint exactly when they agree on the content (text, or
\* name, size and type of every file in order) and on the six settings fields,
\* so distribution and difficultyDistribution do not matter; when it cannot,
\* computeHash returns the empty string for every request.
C25_Fingerprint ==
  /\ hashing.subtle =>
       /\ ~hashing.hash.empty /\ ~hashing.firstHash.empty
       /\ hashing.firstHash = hashing.hash <=>
            (SameContent(hashing.first, hashing.cur) /\ SameSix(hashing.first, hashing.cur))
  /\ ~hashing.subtle => (hashing.hash.empty /\ hashing.firstHash.empty)

\* Two requests that differ in the bytes of the file and in both distribution
\* fields, and have the same fingerprint.
C25_Witness ==
  /\ hashing.subtle /\ hashing.edits = MaxEdits
  /\ hashing.first.content = FileContent(<<File1>>)
  /\ hashing.cur.content = FileContent(<<File1b>>)
  /\ hashing.first.settings.distribution # hashing.cur.settings.distribution
  /\ hashing.firstHash = hashing.hash /\ ~hashing.hash.empty

SameAsAccepted(code, deviceId) ==
  /\ code \in Codes
  /\ codes[code].exists /\ codes[code].isUsed
  /\ codes[code].usedByDeviceId = BoundDevice(deviceId)

\* C27 (activation is repeatable): an activate request whose body is that of
\* an accepted one for the same code is accepted again, with or without
\* deviceId, and checkAuth then keeps the stored activation_code.
C27_Repeatable ==
  [][\A c \in Clients :
       /\ (/\ act[c].pc = "idle" /\ act'[c].pc # "idle"
           /\ SameAsAccepted(act'[c].code, act'[c].deviceId)) =>
            (act'[c].pc = "save" /\ act'[c].status # 403)
       /\ (/\ act[c].pc = "done" /\ act'[c].pc = "idle" /\ act[c].startup
           /\ SameAsAccepted(act[c].code, act[c].deviceId)) =>
            stored'[c] = stored[c]]_vars

\* C28 (usage resets daily): the first generate request of a calendar day is
\* admitted although the day before ended with dailyUsage = limit and activate
\* requests for the code were handled earlier on the new day.
C28_FirstOfDayAdmitted ==
  req["u1"].pc = "done" => req["u1"].status = 200

\* C30 (cache availability after a transient failure): a generateQuizContent
\* call whose fingerprint is in the cache performs the cache check, also after
\* an earlier cache check or cache save of the session failed or timed out.
C30_CacheStillUsed ==
  [][\A c \in Clients :
       (/\ quiz[c].pc \in {"idle", "done"} /\ quiz'[c].pc \notin {"idle", "done"}
        /\ quiz'[c].hash \in Hashes
        /\ cache[quiz'[c].hash].exists) =>
         quiz'[c].pc = "check"]_vars

====
